---- MODULE Spec2Model ----
(***************************************************************************)
(* web_multi_search.py: one query fanned out to several search-engine      *)
(* adapters run as concurrent coroutines (search_engine), joined by        *)
(* asyncio.gather and merged by multi_search; main prints the diagnostics  *)
(* to stderr and the encoded result list to stdout.                        *)
(*                                                                         *)
(* The adapters (search_engines.Bing, ...) are an external library: what   *)
(* an adapter does at each of its four calls (constructor, search,         *)
(* results, close) is a nondeterministic choice of the environment.        *)
(***************************************************************************)
EXTENDS Integers, Sequences, FiniteSets, TLC

\* ------------------------------------------------------------------ bounds
\* longest --engines list (number of comma-separated pieces)
MaxEngines == 2
\* most raw records the adapters return in one query, all sources together
MaxRecords == 2
\* most adapter calls that fail (raise or never complete) in one query
MaxFaults == 2

\* ------------------------------------------------------- strings as chars
\* A name is a sequence of one-character strings, so that str.lower and
\* str.strip are computed and not assumed.
UpperCase == <<"A", "B", "C", "D", "E", "F", "G", "H", "I", "J", "K", "L", "M",
               "N", "O", "P", "Q", "R", "S", "T", "U", "V", "W", "X", "Y", "Z">>
LowerCase == <<"a", "b", "c", "d", "e", "f", "g", "h", "i", "j", "k", "l", "m",
               "n", "o", "p", "q", "r", "s", "t", "u", "v", "w", "x", "y", "z">>
Whitespace == {" ", "\t", "\n"}

LowerChar(c) ==
    IF \E k \in 1..26 : UpperCase[k] = c
    THEN LowerCase[CHOOSE k \in 1..26 : UpperCase[k] = c]
    ELSE c

\* str.lower()
Lower(s) == [k \in 1..Len(s) |-> LowerChar(s[k])]

RECURSIVE LStrip(_)
LStrip(s) ==
    IF s /= <<>> /\ Head(s) \in Whitespace THEN LStrip(Tail(s)) ELSE s

RECURSIVE RStrip(_)
RStrip(s) ==
    IF s /= <<>> /\ s[Len(s)] \in Whitespace
    THEN RStrip(SubSeq(s, 1, Len(s) - 1))
    ELSE s

\* str.strip()
Strip(s) == RStrip(LStrip(s))

\* ---------------------------------------------------------------- registry
WORKING_ENGINES ==
    (<<"b", "i", "n", "g">> :> "Bing")
    @@ (<<"y", "a", "h", "o", "o">> :> "Yahoo")
    @@ (<<"s", "t", "a", "r", "t", "p", "a", "g", "e">> :> "Startpage")
    @@ (<<"a", "o", "l">> :> "Aol")
    @@ (<<"a", "s", "k">> :> "Ask")

TOR_ENGINES == (<<"t", "o", "r", "c", "h">> :> "Torch")

ALL_ENGINES == WORKING_ENGINES @@ TOR_ENGINES

EngineClasses == {ALL_ENGINES[k] : k \in DOMAIN ALL_ENGINES}

\* ------------------------------------------------------------------ inputs
\* The pieces of --engines between commas: a known name in another case, a
\* known name padded with blanks, an unknown name and a blank piece.
Pieces ==
    { <<"B", "i", "n", "g">>,
      <<" ", "a", "s", "k", " ">>,
      <<"f", "o", "o">>,
      <<" ">> }

RECURSIVE SeqsUpTo(_, _)
SeqsUpTo(S, n) ==
    IF n = 0 THEN {<<>>}
    ELSE LET shorter == SeqsUpTo(S, n - 1)
         IN  shorter \cup {Append(s, x) : s \in {t \in shorter : Len(t) = n - 1}, x \in S}

\* Python's None, as a value a raw record can hold under a key
None == "<None>"

\* The raw records an adapter can return: dicts whose keys may be missing
\* and whose values may be None.
RawRecords ==
    { [host |-> "h1", link |-> "u1", title |-> "t1", text |-> "x1"],
      [host |-> "h1", title |-> None, text |-> ""],
      [host |-> "h2", link |-> "u1", title |-> "t3"] }

\* dict.get(key, default)
Get(r, key, default) == IF key \in DOMAIN r THEN r[key] ELSE default

\* The adapter skips, within its own result list, a record whose link (host)
\* it has already collected when ignore_duplicate_urls (_domains) is set.
NoRepeat(s, key) ==
    \A a, b \in 1..Len(s) : a < b => Get(s[a], key, "") /= Get(s[b], key, "")

RawLists == SeqsUpTo(RawRecords, MaxRecords)

AdapterResults(ignore_urls, ignore_domains, most) ==
    { s \in RawLists :
        /\ Len(s) <= most
        /\ ignore_urls => NoRepeat(s, "link")
        /\ ignore_domains => NoRepeat(s, "host") }

\* ------------------------------------------------------------------- state
VARIABLES
    pc,              \* main / multi_search: "start", "gather", "returned", "raised", "exit"
    unique_urls,     \* args.unique_urls
    unique_domains,  \* args.unique_domains
    engines,         \* the names main passes to multi_search
    tasks,           \* the coroutines of multi_search: engine class per runner
    rpc,             \* per runner: "created", "searching", "closing", "done", "raised",
                     \* "cancelled"
    engine,          \* per runner: the adapter instance it constructed
    raw,             \* per runner: the records results.results() yields
    fate,            \* per runner: how its try block ended
    ret,             \* per runner: the list search_engine returns
    results,         \* the list multi_search returns
    stderr,          \* lines written to sys.stderr
    stdout,          \* what print() wrote to sys.stdout
    exitcode,        \* process exit status, -1 while running
    open,            \* adapters constructed and not yet asked to close
    faults,          \* adapter calls that failed in this query
    output,          \* args.output as main read it, "" before
    overtaken        \* whether a coroutine has returned before one placed earlier in tasks had ended

vars == <<pc, unique_urls, unique_domains, engines, tasks, rpc, engine, raw, fate,
          ret, results, stderr, stdout, exitcode, open, faults, output, overtaken>>

Runners == 1..Len(tasks)

RECURSIVE SumLen(_)
SumLen(lists) == IF lists = <<>> THEN 0 ELSE Len(Head(lists)) + SumLen(Tail(lists))

\* what the adapters may still return, and whether one more call may fail
RecordsLeft == MaxRecords - SumLen(raw)
MayFail == faults < MaxFaults

\* Coroutine i returns its list: whether one placed before it in tasks is
\* still running, or one has been overtaken before.
Overtakes(i) ==
    overtaken \/ \E j \in 1..(i - 1) : rpc[j] \notin {"done", "raised"}

NoEngine ==
    [constructed |-> FALSE, ignore_duplicate_urls |-> FALSE,
     ignore_duplicate_domains |-> FALSE, hangs |-> FALSE, closes |-> 0]

\* One line of stderr: its kind, the requested name or the engine class it
\* names, the message it carries and the count it reports.
Line(kind, name, engine_name, msg, n) ==
    [kind |-> kind, name |-> name, engine |-> engine_name, msg |-> msg, n |-> n]

\* ---------------------------------------------------------------- encoders
\* An encoded text is the sequence of its lines, each line a tuple of tokens.
ItemFields == <<"engine", "host", "link", "title", "text">>

\* json.dumps(results, indent=2, ensure_ascii=False): None is written null
JsonValue(v) == IF v = None THEN <<"null">> ELSE <<"string", v>>

JsonObject(item) == [f \in 1..5 |-> <<ItemFields[f], JsonValue(item[ItemFields[f]])>>]

format_json(rs) ==
    << <<"[">> >> \o [k \in 1..Len(rs) |-> JsonObject(rs[k])] \o << <<"]">> >>

\* csv.DictWriter writes None as the empty field
CsvValue(v) == IF v = None THEN "" ELSE v

format_csv(rs) ==
    IF rs = <<>> THEN <<>>
    ELSE <<ItemFields>> \o [k \in 1..Len(rs) |-> [f \in 1..5 |-> CsvValue(rs[k][ItemFields[f]])]]

RECURSIVE TextLines(_, _)
TextLines(rs, k) ==
    IF k > Len(rs) THEN <<>>
    ELSE << <<k, rs[k].engine, rs[k].title>>, <<rs[k].link>> >>
         \o (IF rs[k].text \notin {"", None} THEN << <<rs[k].text>> >> ELSE <<>>)
         \o << <<"">> >>
         \o TextLines(rs, k + 1)

\* format_text without the test for an empty list (lines 152-153).
format_textNoSentinel(rs) == TextLines(rs, 1)

format_text(rs) ==
    IF rs = <<>> THEN << <<"No results found.">> >> ELSE TextLines(rs, 1)

FORMATTERS == {"json", "csv", "text"}

Format(fmt, rs) ==
    CASE fmt = "json" -> format_json(rs)
      [] fmt = "csv" -> format_csv(rs)
      [] fmt = "text" -> format_text(rs)

\* ------------------------------------------------------------ search_engine
\* One item of the list search_engine returns (lines 61-69).
Item(engine_name, r) ==
    [engine |-> engine_name,
     host |-> Get(r, "host", ""),
     link |-> Get(r, "link", ""),
     title |-> Get(r, "title", ""),
     text |-> Get(r, "text", "")]

Items(engine_name, rs) == [k \in 1..Len(rs) |-> Item(engine_name, rs[k])]

\* Line 118: gather wraps the coroutines in tasks in the order of its
\* arguments and the event loop starts them in that order.
StartsNext(i) == \A j \in 1..(i - 1) : rpc[j] /= "created"

\* Lines 47-56, up to the suspension in engine.search: the adapter is
\* constructed and configured and its search is started.  The search the
\* adapter runs either completes at some later time or never does.
Construct(i) ==
    /\ rpc[i] = "created"
    /\ StartsNext(i)
    /\ \E h \in {FALSE} \cup {MayFail} :
         /\ engine' = [engine EXCEPT ![i] =
                         [constructed |-> TRUE,
                          ignore_duplicate_urls |-> unique_urls,
                          ignore_duplicate_domains |-> unique_domains,
                          hangs |-> h,
                          closes |-> 0]]
         /\ faults' = IF h THEN faults + 1 ELSE faults
    /\ rpc' = [rpc EXCEPT ![i] = "searching"]
    /\ open' = open + 1
    /\ UNCHANGED <<overtaken, output, pc, unique_urls, unique_domains, engines, tasks, raw, fate, ret, results,
                   stderr, stdout, exitcode>>

\* Line 47: the adapter's constructor raises.  The call is outside the try
\* block, so the exception leaves the coroutine.
ConstructRaises(i) ==
    /\ rpc[i] = "created"
    /\ StartsNext(i)
    /\ MayFail
    /\ faults' = faults + 1
    /\ rpc' = [rpc EXCEPT ![i] = "raised"]
    /\ fate' = [fate EXCEPT ![i] = "constructor_raised"]
    /\ UNCHANGED <<overtaken, output, pc, unique_urls, unique_domains, engines, tasks, engine, raw, ret, results,
                   stderr, stdout, exitcode, open>>

\* The finally block (line 78) calls engine.close() and suspends in it.
EnterClose(i) ==
    /\ engine' = [engine EXCEPT ![i].closes = @ + 1]
    /\ open' = open - 1
    /\ rpc' = [rpc EXCEPT ![i] = "closing"]

\* Lines 56-70: engine.search returns, every record is read and normalized.
SearchReturns(i) ==
    /\ rpc[i] = "searching"
    /\ ~engine[i].hangs
    /\ \E rs \in AdapterResults(engine[i].ignore_duplicate_urls,
                                engine[i].ignore_duplicate_domains, RecordsLeft) :
         /\ raw' = [raw EXCEPT ![i] = rs]
         /\ ret' = [ret EXCEPT ![i] = Items(tasks[i], rs)]
    /\ fate' = [fate EXCEPT ![i] = "ok"]
    /\ EnterClose(i)
    /\ UNCHANGED <<overtaken, output, pc, unique_urls, unique_domains, engines, tasks, results, stderr, stdout,
                   exitcode, faults>>

\* SearchRaises with the handler's print left out.
SearchRaisesSilently(i) ==
    /\ rpc[i] = "searching"
    /\ ~engine[i].hangs
    /\ MayFail
    /\ faults' = faults + 1
    /\ fate' = [fate EXCEPT ![i] = "search_raised"]
    /\ ret' = [ret EXCEPT ![i] = <<>>]
    /\ EnterClose(i)
    /\ UNCHANGED <<overtaken, output, pc, unique_urls, unique_domains, engines, tasks, raw, results, stdout,
                   exitcode, stderr>>

\* SearchRaises with engine.close() called on the success path only.
SearchRaisesUnclosed(i) ==
    /\ rpc[i] = "searching"
    /\ ~engine[i].hangs
    /\ MayFail
    /\ faults' = faults + 1
    /\ fate' = [fate EXCEPT ![i] = "search_raised"]
    /\ ret' = [ret EXCEPT ![i] = <<>>]
    /\ stderr' = Append(stderr, Line("failed", <<>>, tasks[i], "search", 0))
    /\ rpc' = [rpc EXCEPT ![i] = "done"]
    /\ UNCHANGED <<overtaken, output, pc, unique_urls, unique_domains, engines, tasks, raw, results, stdout,
                   exitcode, engine, open>>

\* Lines 56, 71-76: engine.search raises (a network error, the adapter's
\* own timeout, a parse error); the handler warns and returns [].
SearchRaises(i) ==
    /\ rpc[i] = "searching"
    /\ ~engine[i].hangs
    /\ MayFail
    /\ faults' = faults + 1
    /\ fate' = [fate EXCEPT ![i] = "search_raised"]
    /\ ret' = [ret EXCEPT ![i] = <<>>]
    /\ stderr' = Append(stderr, Line("failed", <<>>, tasks[i], "search", 0))
    /\ EnterClose(i)
    /\ UNCHANGED <<overtaken, output, pc, unique_urls, unique_domains, engines, tasks, raw, results, stdout,
                   exitcode>>

\* ReadRaises with the handler returning the items read before the failure.
ReadRaisesKeepsPartial(i) ==
    /\ rpc[i] = "searching"
    /\ ~engine[i].hangs
    /\ MayFail
    /\ faults' = faults + 1
    /\ \E rs \in AdapterResults(engine[i].ignore_duplicate_urls,
                                engine[i].ignore_duplicate_domains, RecordsLeft) :
         /\ Len(rs) = 1
         /\ raw' = [raw EXCEPT ![i] = rs]
         /\ ret' = [ret EXCEPT ![i] = Items(tasks[i], rs)]
    /\ fate' = [fate EXCEPT ![i] = "read_raised"]
    /\ stderr' = Append(stderr, Line("failed", <<>>, tasks[i], "results", 0))
    /\ EnterClose(i)
    /\ UNCHANGED <<overtaken, output, pc, unique_urls, unique_domains, engines, tasks, results, stdout, exitcode>>

\* Lines 60-76: reading a returned record raises after one record was
\* already appended to items (raw keeps the record read before the failing
\* one); the handler warns and returns [].
ReadRaises(i) ==
    /\ rpc[i] = "searching"
    /\ ~engine[i].hangs
    /\ MayFail
    /\ faults' = faults + 1
    /\ \E rs \in AdapterResults(engine[i].ignore_duplicate_urls,
                                engine[i].ignore_duplicate_domains, RecordsLeft) :
         /\ Len(rs) = 1
         /\ raw' = [raw EXCEPT ![i] = rs]
    /\ fate' = [fate EXCEPT ![i] = "read_raised"]
    /\ ret' = [ret EXCEPT ![i] = <<>>]
    /\ stderr' = Append(stderr, Line("failed", <<>>, tasks[i], "results", 0))
    /\ EnterClose(i)
    /\ UNCHANGED <<overtaken, output, pc, unique_urls, unique_domains, engines, tasks, results, stdout, exitcode>>

\* Line 78: engine.close() completes and the coroutine returns its list.
CloseReturns(i) ==
    /\ rpc[i] = "closing"
    /\ rpc' = [rpc EXCEPT ![i] = "done"]
    /\ overtaken' = Overtakes(i)
    /\ UNCHANGED <<output, pc, unique_urls, unique_domains, engines, tasks, engine, raw, fate, ret,
                   results, stderr, stdout, exitcode, open, faults>>

\* Line 78: engine.close() raises inside the finally block; the exception
\* replaces the pending return value and leaves the coroutine.
CloseRaises(i) ==
    /\ rpc[i] = "closing"
    /\ MayFail
    /\ faults' = faults + 1
    /\ rpc' = [rpc EXCEPT ![i] = "raised"]
    /\ UNCHANGED <<overtaken, output, pc, unique_urls, unique_domains, engines, tasks, engine, raw, fate, ret,
                   results, stderr, stdout, exitcode, open>>

\* ------------------------------------------------------------- multi_search
\* Lines 92-100: the requested names that are no key of ALL_ENGINES, each
\* reported with the name as the caller wrote it.
RECURSIVE UnknownWarnings(_)
UnknownWarnings(names) ==
    IF names = <<>> THEN <<>>
    ELSE (IF Strip(Lower(Head(names))) \notin DOMAIN ALL_ENGINES
          THEN <<Line("unknown", Head(names), "", "", 0)>>
          ELSE <<>>)
         \o UnknownWarnings(Tail(names))

\* ResolveTasks with a name left out when its engine class is already in
\* tasks (the requested names deduplicated).
RECURSIVE ResolveTasksOnce(_)
ResolveTasksOnce(names) ==
    IF names = <<>> THEN <<>>
    ELSE LET before == ResolveTasksOnce(SubSeq(names, 1, Len(names) - 1))
             name == Strip(Lower(names[Len(names)]))
         IN  IF name \in DOMAIN ALL_ENGINES
                /\ \A k \in DOMAIN before : before[k] /= ALL_ENGINES[name]
             THEN Append(before, ALL_ENGINES[name])
             ELSE before

\* ResolveTasks with the requested name compared as written, without lower().
RECURSIVE ResolveTasksCaseSensitive(_)
ResolveTasksCaseSensitive(names) ==
    IF names = <<>> THEN <<>>
    ELSE (IF Strip(Head(names)) \in DOMAIN ALL_ENGINES
          THEN <<ALL_ENGINES[Strip(Head(names))]>>
          ELSE <<>>)
         \o ResolveTasksCaseSensitive(Tail(names))

\* ResolveTasks with an unknown name falling back to the first default engine.
RECURSIVE ResolveTasksWithDefault(_)
ResolveTasksWithDefault(names) ==
    IF names = <<>> THEN <<>>
    ELSE (IF Strip(Lower(Head(names))) \in DOMAIN ALL_ENGINES
          THEN <<ALL_ENGINES[Strip(Lower(Head(names)))]>>
          ELSE <<"Bing">>)
         \o ResolveTasksWithDefault(Tail(names))

\* Lines 92-112: one coroutine per known name, in the order requested.
RECURSIVE ResolveTasks(_)
ResolveTasks(names) ==
    IF names = <<>> THEN <<>>
    ELSE (IF Strip(Lower(Head(names))) \in DOMAIN ALL_ENGINES
          THEN <<ALL_ENGINES[Strip(Lower(Head(names)))]>>
          ELSE <<>>)
         \o ResolveTasks(Tail(names))

\* Lines 122-123: the nested loops visit the lists in task order and each
\* list in its own order.
RECURSIVE Concat(_)
Concat(lists) ==
    IF lists = <<>> THEN <<>> ELSE Head(lists) \o Concat(Tail(lists))

\* Merge with an empty link never taken for a duplicate.
RECURSIVE MergeSkipsEmptyLinks(_, _, _, _)
MergeSkipsEmptyLinks(items, urls_flag, seen_urls, all_results) ==
    IF items = <<>> THEN all_results
    ELSE IF urls_flag /\ Head(items).link /= "" /\ Head(items).link \in seen_urls
         THEN MergeSkipsEmptyLinks(Tail(items), urls_flag, seen_urls, all_results)
         ELSE MergeSkipsEmptyLinks(Tail(items), urls_flag, seen_urls \cup {Head(items).link},
                                   Append(all_results, Head(items)))

\* Merge with the unique_urls test left out of line 124.
RECURSIVE MergeAlwaysUnique(_, _, _, _)
MergeAlwaysUnique(items, urls_flag, seen_urls, all_results) ==
    IF items = <<>> THEN all_results
    ELSE IF Head(items).link \in seen_urls
         THEN MergeAlwaysUnique(Tail(items), urls_flag, seen_urls, all_results)
         ELSE MergeAlwaysUnique(Tail(items), urls_flag, seen_urls \cup {Head(items).link},
                                Append(all_results, Head(items)))

\* Merge with seen_urls.add (line 126) left out.
RECURSIVE MergeForgetsSeen(_, _, _, _)
MergeForgetsSeen(items, urls_flag, seen_urls, all_results) ==
    IF items = <<>> THEN all_results
    ELSE IF urls_flag /\ Head(items).link \in seen_urls
         THEN MergeForgetsSeen(Tail(items), urls_flag, seen_urls, all_results)
         ELSE MergeForgetsSeen(Tail(items), urls_flag, seen_urls,
                               Append(all_results, Head(items)))

\* Lines 120-127: the loop body over the visited items.
RECURSIVE Merge(_, _, _, _)
Merge(items, urls_flag, seen_urls, all_results) ==
    IF items = <<>> THEN all_results
    ELSE IF urls_flag /\ Head(items).link \in seen_urls
         THEN Merge(Tail(items), urls_flag, seen_urls, all_results)
         ELSE Merge(Tail(items), urls_flag, seen_urls \cup {Head(items).link},
                    Append(all_results, Head(items)))

\* Lines 120-129.  unique_domains is no input of the loop.
Aggregate(results_lists, urls_flag, domains_flag) ==
    Merge(Concat(results_lists), urls_flag, {}, <<>>)

\* GatherReturns merging the lists in the order the coroutines ended in: when
\* a later coroutine ended before an earlier one, the later list comes first.
GatherReturnsCompletionOrder ==
    /\ pc = "gather"
    /\ \A i \in Runners : rpc[i] = "done"
    /\ results' = Aggregate(IF overtaken
                            THEN [k \in 1..Len(ret) |-> ret[Len(ret) + 1 - k]]
                            ELSE ret,
                            unique_urls, unique_domains)
    /\ pc' = "returned"
    /\ UNCHANGED <<overtaken, output, unique_urls, unique_domains, engines, tasks, rpc, engine, raw, fate, ret,
                   stderr, stdout, exitcode, open, faults>>

\* GatherReturns resuming multi_search as soon as one coroutine has returned
\* (asyncio.wait with FIRST_COMPLETED in place of gather).
GatherReturnsFirstCompleted ==
    /\ pc = "gather"
    /\ \E i \in Runners : rpc[i] = "done"
    /\ results' = Aggregate(ret, unique_urls, unique_domains)
    /\ pc' = "returned"
    /\ UNCHANGED <<overtaken, output, unique_urls, unique_domains, engines, tasks, rpc, engine, raw, fate, ret,
                   stderr, stdout, exitcode, open, faults>>

\* Lines 118-129: gather resumes multi_search with every coroutine's list
\* once all have returned.
GatherReturns ==
    /\ pc = "gather"
    /\ \A i \in Runners : rpc[i] = "done"
    /\ results' = Aggregate(ret, unique_urls, unique_domains)
    /\ pc' = "returned"
    /\ UNCHANGED <<overtaken, output, unique_urls, unique_domains, engines, tasks, rpc, engine, raw, fate, ret,
                   stderr, stdout, exitcode, open, faults>>

\* Line 118: gather is called without return_exceptions, so the exception of
\* a coroutine is raised in multi_search, which has no handler, and then in
\* main and asyncio.run (line 265).  Before the process exits asyncio.run
\* cancels the coroutines still running: CancelledError is no Exception, so
\* one suspended in engine.search skips the handler and runs the finally
\* block, and one not yet started never constructs its adapter.
GatherRaises ==
    /\ pc = "gather"
    /\ \E i \in Runners : rpc[i] = "raised"
    /\ pc' = "raised"
    /\ rpc' = [i \in Runners |-> IF rpc[i] \in {"done", "raised"} THEN rpc[i] ELSE "cancelled"]
    /\ engine' = [i \in Runners |->
                    IF rpc[i] = "searching" THEN [engine[i] EXCEPT !.closes = @ + 1]
                    ELSE engine[i]]
    /\ open' = open - Cardinality({i \in Runners : rpc[i] = "searching"})
    /\ stderr' = Append(stderr, Line("traceback", <<>>, "", "", 0))
    /\ exitcode' = 1
    /\ UNCHANGED <<overtaken, output, unique_urls, unique_domains, engines, tasks, raw, fate,
                   ret, results, stdout, faults>>

\* --------------------------------------------------------------------- main
\* Line 237: the pieces of --engines, stripped, the blank ones left out.
RECURSIVE StripPieces(_)
StripPieces(pieces) ==
    IF pieces = <<>> THEN <<>>
    ELSE (IF Strip(Head(pieces)) /= <<>> THEN <<Strip(Head(pieces))>> ELSE <<>>)
         \o StripPieces(Tail(pieces))

\* Lines 236-245 and 91-116: main parses the arguments and calls
\* multi_search, which runs up to gather, or returns [] when no requested
\* name is known.
MainStart ==
    /\ pc = "start"
    /\ \E pieces \in SeqsUpTo(Pieces, MaxEngines), uu \in BOOLEAN, ud \in BOOLEAN :
         LET names == StripPieces(pieces)
             coros == ResolveTasks(names)
         IN  /\ engines' = names
             /\ unique_urls' = uu
             /\ unique_domains' = ud
             /\ tasks' = coros
             /\ rpc' = [i \in 1..Len(coros) |-> "created"]
             /\ engine' = [i \in 1..Len(coros) |-> NoEngine]
             /\ raw' = [i \in 1..Len(coros) |-> <<>>]
             /\ fate' = [i \in 1..Len(coros) |-> "none"]
             /\ ret' = [i \in 1..Len(coros) |-> <<>>]
             /\ stderr' = <<Line("searching", <<>>, "", "", Len(names))>>
                          \o UnknownWarnings(names)
                          \o (IF coros = <<>>
                              THEN <<Line("no_valid", <<>>, "", "", 0)>>
                              ELSE <<>>)
             /\ pc' = IF coros = <<>> THEN "returned" ELSE "gather"
    /\ results' = <<>>
    /\ stdout' = <<>>
    /\ exitcode' = -1
    /\ output' = ""
    /\ overtaken' = FALSE
    /\ UNCHANGED <<open, faults>>

\* MainFinish with the summary line printed without file=sys.stderr.
MainFinishSummaryToStdout ==
    /\ pc = "returned"
    /\ stderr' = stderr
    /\ \E fmt \in FORMATTERS :
         /\ output' = fmt
         /\ stdout' = << <<"Found", Len(results)>> >> \o Format(fmt, results)
    /\ exitcode' = 0
    /\ pc' = "exit"
    /\ UNCHANGED <<overtaken, unique_urls, unique_domains, engines, tasks, rpc, engine, raw, fate, ret,
                   results, open, faults>>

\* Lines 255-261: the summary goes to stderr, the encoded list to stdout.
MainFinish ==
    /\ pc = "returned"
    /\ stderr' = Append(stderr, Line("found", <<>>, "", "", Len(results)))
    /\ \E fmt \in FORMATTERS :
         /\ output' = fmt
         /\ stdout' = Format(fmt, results)
    /\ exitcode' = 0
    /\ pc' = "exit"
    /\ UNCHANGED <<overtaken, unique_urls, unique_domains, engines, tasks, rpc, engine, raw, fate, ret,
                   results, open, faults>>

\* Line 265, run again: after a query that ended normally the next query
\* starts from a fresh program state; what the last one left open stays open.
NextQuery ==
    /\ pc = "exit"
    /\ exitcode = 0
    /\ pc' = "start"
    /\ unique_urls' = FALSE
    /\ unique_domains' = FALSE
    /\ engines' = <<>>
    /\ tasks' = <<>>
    /\ rpc' = <<>>
    /\ engine' = <<>>
    /\ raw' = <<>>
    /\ fate' = <<>>
    /\ ret' = <<>>
    /\ results' = <<>>
    /\ stderr' = <<>>
    /\ stdout' = <<>>
    /\ exitcode' = -1
    /\ faults' = 0
    /\ output' = ""
    /\ overtaken' = FALSE
    /\ UNCHANGED open

\* ------------------------------------------------------------ specification
Init ==
    /\ pc = "start"
    /\ unique_urls = FALSE
    /\ unique_domains = FALSE
    /\ engines = <<>>
    /\ tasks = <<>>
    /\ rpc = <<>>
    /\ engine = <<>>
    /\ raw = <<>>
    /\ fate = <<>>
    /\ ret = <<>>
    /\ results = <<>>
    /\ stderr = <<>>
    /\ stdout = <<>>
    /\ exitcode = -1
    /\ open = 0
    /\ faults = 0
    /\ output = ""
    /\ overtaken = FALSE

Runner(i) ==
    \/ Construct(i)
    \/ ConstructRaises(i)
    \/ SearchReturns(i)
    \/ SearchRaises(i)
    \/ ReadRaises(i)
    \/ CloseReturns(i)
    \/ CloseRaises(i)

Next ==
    \/ MainStart
    \/ \E i \in Runners : Construct(i)
    \/ \E i \in Runners : ConstructRaises(i)
    \/ \E i \in Runners : SearchReturns(i)
    \/ \E i \in Runners : SearchRaises(i)
    \/ \E i \in Runners : ReadRaises(i)
    \/ \E i \in Runners : CloseReturns(i)
    \/ \E i \in Runners : CloseRaises(i)
    \/ GatherReturns
    \/ GatherRaises
    \/ MainFinish
    \/ NextQuery

Spec == Init /\ [][Next]_vars

\* The event loop resumes every coroutine that can run, and main runs on
\* once multi_search has returned; nobody is bound to start another query.
FairSpec ==
    /\ Spec
    /\ \A i \in 1..MaxEngines : WF_vars(i \in Runners /\ Runner(i))
    /\ WF_vars(GatherReturns)
    /\ WF_vars(GatherRaises)
    /\ WF_vars(MainFinish)

\* ------------------------------------------------------------------ claims
\* multi_search has returned its list (to main, which may have printed it)
Returned == pc \in {"returned", "exit"}

\* the lines of stderr that warn of a failed source
FailureWarnings == {k \in DOMAIN stderr : stderr[k].kind = "failed"}

\* where the list of runner i starts in the concatenation of all lists
Offset(lists, i) == SumLen(SubSeq(lists, 1, i - 1))

\* the n-th smallest index of a set of indices
NthIndex(K, n) == CHOOSE k \in K : Cardinality({j \in K : j <= k}) = n

\* the elements of seq at the indices K, in their order in seq
Pick(seq, K) == [n \in 1..Cardinality(K) |-> seq[NthIndex(K, n)]]

\* C1: when exactly one source's search fails and every other source
\* succeeds, with both dedup flags off, multi_search returns exactly the
\* records of the healthy sources in requested order, the failing source
\* contributes none, and exactly one warning is written, naming that source.
C1_OneFailureIsolated ==
    (Returned /\ ~unique_urls /\ ~unique_domains) =>
        \A b \in Runners :
            (fate[b] = "search_raised" /\ \A a \in Runners \ {b} : fate[a] = "ok") =>
                /\ ret[b] = <<>>
                /\ Len(results) = SumLen(raw)
                /\ \A a \in Runners \ {b} : \A k \in 1..Len(raw[a]) :
                     results[Offset(raw, a) + k] = Item(tasks[a], raw[a][k])
                /\ Cardinality(FailureWarnings) = 1
                /\ \A k \in FailureWarnings : stderr[k].engine = tasks[b]

C1_Witness ==
    /\ pc = "returned"
    /\ ~unique_urls /\ ~unique_domains
    /\ tasks = <<"Bing", "Ask">>
    /\ fate = <<"ok", "search_raised">>
    /\ Len(results) = 2

\* C2: no failure of an adapter call (constructor, search, reading the
\* records, close) leaves its runner or multi_search as an exception.
C2_NoFailureEscapes ==
    /\ pc /= "raised"
    /\ \A i \in Runners : rpc[i] /= "raised"

\* C3: an adapter a runner constructed is asked to close exactly once on
\* every way out of the runner, never more than once and never before the
\* try block has ended, so that nothing is left open when multi_search
\* returns or when the next query starts.
C3_ClosedExactlyOnce ==
    /\ \A i \in Runners :
         /\ engine[i].closes = (IF engine[i].constructed /\ rpc[i] /= "searching" THEN 1 ELSE 0)
         /\ rpc[i] \in {"closing", "done"} => engine[i].constructed
    /\ Returned => open = 0
    /\ pc = "start" => open = 0

C3_Witness ==
    /\ pc = "returned"
    /\ Len(tasks) = 2
    /\ fate = <<"read_raised", "search_raised">>
    /\ \A i \in Runners : engine[i].closes = 1

\* C4: while multi_search waits in gather with a source whose search never
\* completes on its own, the call still comes to an end.
C4_HangingSourceIsBounded ==
    (pc = "gather" /\ \E i \in Runners : rpc[i] = "searching" /\ engine[i].hangs)
        ~> (pc /= "gather")

\* C5: with both dedup flags off and at least one resolved source, the list
\* multi_search returns is as long as the runners' lists together and holds
\* each runner's list, in its own order, at the place of its source.
C5_NoDedupIsConcatenation ==
    (Returned /\ tasks /= <<>> /\ ~unique_urls /\ ~unique_domains) =>
        /\ Len(results) = SumLen(ret)
        /\ \A i \in Runners : \A k \in 1..Len(ret[i]) :
             results[Offset(ret, i) + k] = ret[i][k]

C5_Witness ==
    /\ pc = "returned"
    /\ ~unique_urls /\ ~unique_domains
    /\ Len(tasks) = 2
    /\ ret[1] /= <<>> /\ ret[2] /= <<>>
    /\ ret[1][1].link = ret[2][1].link
    /\ Len(results) = 2

\* C6: with unique_urls set, no two returned elements share a non-empty
\* link, and the returned list is the concatenation of the runners' lists
\* cut down to the first occurrence of every link, each at its own place.
C6_UrlDedupFirstWins ==
    (Returned /\ unique_urls) =>
        LET flat == Concat(ret)
            first == {k \in 1..Len(flat) : \A j \in 1..(k - 1) : flat[j].link /= flat[k].link}
        IN  /\ \A a, b \in 1..Len(results) :
                 (a < b /\ results[a].link /= "") => results[a].link /= results[b].link
            /\ results = Pick(flat, first)

C6_Witness ==
    /\ pc = "returned"
    /\ unique_urls
    /\ Len(tasks) = 2
    /\ Len(ret[1]) = 1 /\ Len(ret[2]) = 1
    /\ ret[1][1].link = "u1" /\ ret[2][1].link = "u1"
    /\ results = ret[1]

\* C7: with unique_domains set, no two returned elements share a non-empty
\* host, whichever sources they come from.
C7_DomainDedupAcrossSources ==
    (Returned /\ unique_domains) =>
        \A a, b \in 1..Len(results) :
            (a < b /\ results[a].host /= "") => results[a].host /= results[b].host

\* The aggregation the two flags together call for: a record is dropped
\* when its link or its host is that of a record admitted before it.
RECURSIVE CombinedDedup(_, _, _, _)
CombinedDedup(items, seen_links, seen_hosts, admitted) ==
    IF items = <<>> THEN admitted
    ELSE IF Head(items).link \in seen_links \/ Head(items).host \in seen_hosts
         THEN CombinedDedup(Tail(items), seen_links, seen_hosts, admitted)
         ELSE CombinedDedup(Tail(items), seen_links \cup {Head(items).link},
                            seen_hosts \cup {Head(items).host},
                            Append(admitted, Head(items)))

\* C8: with both flags set, a record is dropped exactly when its link or
\* its host has been seen among the records admitted before it.
C8_CombinedDecision ==
    (Returned /\ unique_urls /\ unique_domains) =>
        results = CombinedDedup(Concat(ret), {}, {}, <<>>)

\* C9: when no requested name is a known source, the call ends at once and
\* no adapter is constructed, searched or closed.
C9_NoValidSourceNoAdapter ==
    (pc /= "start" /\ \A k \in 1..Len(engines) : Strip(Lower(engines[k])) \notin DOMAIN ALL_ENGINES) =>
        /\ Returned
        /\ tasks = <<>>
        /\ DOMAIN engine = {}
        /\ DOMAIN rpc = {}
        /\ open = 0
        /\ results = <<>>

C9_Witness ==
    /\ pc = "returned"
    /\ Len(engines) = 2
    /\ \A k \in 1..2 : engines[k] = <<"f", "o", "o">>
    /\ tasks = <<>>

\* C10: a query that resolved to no valid source ends as a hard failure,
\* with a non-zero exit status.
C10_NoValidSourceIsHardFailure ==
    (pc = "exit" /\ tasks = <<>>) => exitcode /= 0

\* The names main can pass on that, trimmed and compared without regard to
\* case, are a key of the registry, each with the engine class it stands for
KnownSpellings ==
    {<<Strip(p), ALL_ENGINES[Lower(Strip(p))]>> :
        p \in {q \in Pieces : Lower(Strip(q)) \in DOMAIN ALL_ENGINES}}

ClassOf(name) == (CHOOSE s \in KnownSpellings : s[1] = name)[2]

\* The places of the request that hold such a name, and the others
KnownSpelled == {s[1] : s \in KnownSpellings}

KnownNames == {k \in DOMAIN engines : engines[k] \in KnownSpelled}

UnknownNames == DOMAIN engines \ KnownNames

UnknownWarningLines == {k \in DOMAIN stderr : stderr[k].kind = "unknown"}

\* C11: for a requested list mixing known and unknown names, the query runs
\* exactly the known names, in the order requested, and stderr holds one
\* warning per unknown name, in the order requested, carrying the name as
\* written; resolving the names raises nothing: an exception, if any, comes
\* from a coroutine that was started.
C11_KnownRunUnknownWarned ==
    (pc /= "start") =>
        /\ LET known == KnownNames
           IN  tasks = [n \in 1..Cardinality(known) |-> ClassOf(engines[NthIndex(known, n)])]
        /\ LET unknown == UnknownNames
               warned == UnknownWarningLines
           IN  /\ Cardinality(warned) = Cardinality(unknown)
               /\ \A n \in 1..Cardinality(unknown) :
                    stderr[NthIndex(warned, n)].name = engines[NthIndex(unknown, n)]
        /\ (pc = "raised" => \E i \in Runners : rpc[i] = "raised")

\* "Bing,foo" was requested: foo was warned about, Bing alone ran and the
\* query ended normally.
C11_Witness ==
    /\ pc = "exit"
    /\ engines = << <<"B", "i", "n", "g">>, <<"f", "o", "o">> >>
    /\ tasks = <<"Bing">>
    /\ fate = <<"ok">>
    /\ Cardinality(UnknownWarningLines) = 1

\* The coroutines of the query that have neither returned nor raised
Running == {i \in Runners : rpc[i] \in {"created", "searching", "closing"}}

\* C12: the aggregation starts only after every launched runner has settled:
\* while a runner is still running no record is in the result list and
\* multi_search has not returned, and when it has returned every runner has.
C12_JoinBarrier ==
    /\ (Running /= {}) => (results = <<>> /\ ~Returned)
    /\ Returned => \A i \in Runners : rpc[i] = "done"

\* Two runners, the second settled while the first was still running, and
\* the merge that followed holds records of both.
C12_Witness ==
    /\ pc = "returned"
    /\ Len(tasks) = 2
    /\ overtaken
    /\ ret[1] /= <<>>
    /\ ret[2] /= <<>>
    /\ Len(results) = 2

\* The links of a list of items
Links(items) == {items[k].link : k \in 1..Len(items)}

\* A source's list appended to what the sources before it contributed; with
\* dedup on, an item is left out when its link was contributed before.
RECURSIVE AppendSource(_, _, _)
AppendSource(acc, items, dedup) ==
    IF items = <<>> THEN acc
    ELSE IF dedup /\ Head(items).link \in Links(acc)
         THEN AppendSource(acc, Tail(items), dedup)
         ELSE AppendSource(Append(acc, Head(items)), Tail(items), dedup)

\* The sources' lists taken in the order the sources were requested in
RECURSIVE ByRequestOrder(_, _)
ByRequestOrder(i, acc) ==
    IF i > Len(tasks) THEN acc
    ELSE ByRequestOrder(i + 1, AppendSource(acc, ret[i], unique_urls))

\* C13: for given per-source outcomes the returned list (its elements, their
\* order and the duplicate that survives) is the one the requested source
\* order determines, whatever order the runners ended in.
C13_RequestOrderDecides ==
    (Returned /\ tasks /= <<>>) => results = ByRequestOrder(1, <<>>)

\* Bing and Ask were requested with URL dedup, Ask ended first, both
\* returned a record of the same link: Bing's record is the survivor.
C13_Witness ==
    /\ pc = "returned"
    /\ tasks = <<"Bing", "Ask">>
    /\ overtaken
    /\ unique_urls
    /\ Len(ret[1]) = 1 /\ Len(ret[2]) = 1
    /\ ret[1][1].link = ret[2][1].link
    /\ Len(results) = 1
    /\ results[1].engine = "Bing"

\* Runner i has failed: its adapter could not be constructed, its search or
\* the reading of its records raised, or closing it raised.
Failed(i) ==
    \/ fate[i] \in {"constructor_raised", "search_raised", "read_raised"}
    \/ rpc[i] = "raised"

\* C14: if every one of the N resolved sources fails, the program does not
\* end in an exception, and the list multi_search returns is empty, with
\* exactly N failure warnings on stderr.
C14_TotalFailureIsSoft ==
    (tasks /= <<>> /\ \A i \in Runners : Failed(i)) =>
        /\ pc /= "raised"
        /\ Returned => (results = <<>> /\ Cardinality(FailureWarnings) = Len(tasks))

\* C15: every element of the list multi_search returns carries a non-empty
\* engine tag, and its host, link, title and text are strings, never None,
\* whatever raw records the adapters returned.
C15_ResultsWellFormed ==
    \A k \in DOMAIN results :
        /\ results[k].engine /= ""
        /\ \A f \in {"host", "link", "title", "text"} : results[k][f] /= None

\* What a JSON reader makes of a text: the text is a JSON array of objects
\* with the five keys, and the list of the objects it holds.
IsJsonArray(text) ==
    /\ Len(text) >= 2
    /\ text[1] = <<"[">>
    /\ text[Len(text)] = <<"]">>
    /\ \A k \in 2..(Len(text) - 1) :
         /\ Len(text[k]) = 5
         /\ \A f \in 1..5 : text[k][f][1] = ItemFields[f]

JsonRead(v) == IF v = <<"null">> THEN None ELSE v[2]

ParseJson(text) ==
    [k \in 1..(Len(text) - 2) |->
        [key \in {"engine", "host", "link", "title", "text"} |->
            JsonRead((CHOOSE p \in {text[k + 1][f] : f \in 1..5} : p[1] = key)[2])]]

\* The stderr lines of one kind
LinesOf(kind) == {k \in DOMAIN stderr : stderr[k].kind = kind}

\* The runners whose failure the handler of search_engine reported
Warned == {i \in Runners : fate[i] \in {"search_raised", "read_raised"}}

\* C16: stdout receives nothing before the program prints the encoded list
\* and then holds exactly the encoding of the returned list in the chosen
\* format (as JSON, a text a JSON reader turns back into that list); the
\* warnings for unknown names, for failed sources and for no valid engine
\* and the result-count summary are all on stderr, one line per event.
C16_PayloadOnlyOnStdout ==
    /\ (pc /= "exit") => stdout = <<>>
    /\ (pc = "exit") =>
         /\ stdout = Format(output, results)
         /\ (output = "json") => (IsJsonArray(stdout) /\ ParseJson(stdout) = results)
    /\ (pc /= "start") =>
         /\ Cardinality(LinesOf("unknown")) = Cardinality(UnknownNames)
         /\ Cardinality(LinesOf("failed")) = Cardinality(Warned)
         /\ Cardinality(LinesOf("no_valid")) = (IF tasks = <<>> THEN 1 ELSE 0)
    /\ Cardinality(LinesOf("found")) = (IF pc = "exit" THEN 1 ELSE 0)

\* One source failed and was warned about, the other returned records, and
\* the list was printed as JSON.
C16_Witness ==
    /\ pc = "exit"
    /\ output = "json"
    /\ Len(tasks) = 2
    /\ fate = <<"search_raised", "ok">>
    /\ results /= <<>>
    /\ Cardinality(LinesOf("failed")) = 1
    /\ Len(stdout) = Len(results) + 2

\* What a CSV reader makes of a text: the text is either empty or a header
\* row of the five columns followed by rows of five fields, and the list of
\* the rows it holds, each keyed by the header.
IsCsvTable(text) ==
    text /= <<>> => (text[1] = ItemFields /\ \A k \in 2..Len(text) : Len(text[k]) = 5)

ParseCsv(text) ==
    IF text = <<>> THEN <<>>
    ELSE [k \in 1..(Len(text) - 1) |->
            [key \in {"engine", "host", "link", "title", "text"} |->
                text[k + 1][CHOOSE f \in 1..5 : text[1][f] = key]]]

\* C17: an empty result list is printed, as JSON, as a text that reads back
\* as the empty array; as CSV, as a text that reads back as a table of no
\* rows; as text, as the line "No results found.".
C17_EmptyListEncodings ==
    (pc = "exit" /\ results = <<>>) =>
        /\ (output = "json") => (IsJsonArray(stdout) /\ ParseJson(stdout) = <<>>)
        /\ (output = "csv") => (IsCsvTable(stdout) /\ ParseCsv(stdout) = <<>>)
        /\ (output = "text") => stdout = << <<"No results found.">> >>

\* A source ran and returned nothing, and the empty list was printed as text.
C17_Witness ==
    /\ pc = "exit"
    /\ tasks /= <<>>
    /\ \A i \in Runners : fate[i] = "ok"
    /\ results = <<>>
    /\ output = "text"
    /\ stdout /= <<>>

\* The places of the request that name engine class c
RequestsOf(c) == {k \in KnownNames : ClassOf(engines[k]) = c}

\* C18: a valid name requested k times gets k runners: when multi_search
\* returns, every engine class has run as many times as it was requested,
\* each run with an adapter of its own that was constructed, searched and
\* closed once; with both dedup flags off the records of every one of these
\* runs are in the returned list, at the place of their request.
C18_RepeatedNameRunsAgain ==
    (pc = "returned") =>
        /\ \A c \in {tasks[i] : i \in Runners} \cup {ClassOf(engines[k]) : k \in KnownNames} :
             Cardinality({i \in Runners : tasks[i] = c}) = Cardinality(RequestsOf(c))
        /\ \A i \in Runners :
             rpc[i] = "done" /\ engine[i].constructed /\ engine[i].closes = 1
        /\ (~unique_urls /\ ~unique_domains) =>
             \A i \in Runners :
                 SubSeq(results, Offset(ret, i) + 1, Offset(ret, i) + Len(ret[i])) = ret[i]

\* Bing was requested twice with dedup off; both runs returned a record and
\* both records are in the returned list.
C18_Witness ==
    /\ pc = "returned"
    /\ engines = << <<"B", "i", "n", "g">>, <<"B", "i", "n", "g">> >>
    /\ tasks = <<"Bing", "Bing">>
    /\ ~unique_urls /\ ~unique_domains
    /\ engine[1].closes = 1 /\ engine[2].closes = 1
    /\ Len(ret[1]) = 1 /\ Len(ret[2]) = 1
    /\ results = ret[1] \o ret[2]

\* The places of a list of items that hold an item with the empty link
EmptyLinked(items) == {k \in DOMAIN items : items[k].link = ""}

\* C19: with unique_urls set, the returned list holds an item with the empty
\* link only once, the first one the runners returned in task order, and
\* none when no runner returned one; with unique_urls unset it holds as many
\* as the runners returned.
C19_EmptyLinkIsADedupKey ==
    Returned =>
        LET flat == Concat(ret)
            kept == EmptyLinked(results)
        IN  IF unique_urls
            THEN /\ Cardinality(kept) = (IF EmptyLinked(flat) = {} THEN 0 ELSE 1)
                 /\ \A k \in kept :
                      results[k] = flat[CHOOSE j \in EmptyLinked(flat) :
                                           \A m \in EmptyLinked(flat) : j <= m]
            ELSE Cardinality(kept) = Cardinality(EmptyLinked(flat))

\* Bing and Ask each returned the record without a link, with URL dedup on:
\* Bing's item is returned, Ask's item, which differs from it, is not.
C19_Witness ==
    /\ pc = "returned"
    /\ unique_urls
    /\ tasks = <<"Bing", "Ask">>
    /\ Len(ret[1]) = 1 /\ Len(ret[2]) = 1
    /\ ret[1][1].link = "" /\ ret[2][1].link = ""
    /\ ret[1][1] /= ret[2][1]
    /\ results = ret[1]

\* s is t with some elements left out, the others in their order
RECURSIVE IsSubseq(_, _)
IsSubseq(s, t) ==
    IF s = <<>> THEN TRUE
    ELSE IF t = <<>> THEN FALSE
    ELSE IF Head(s) = Head(t) THEN IsSubseq(Tail(s), Tail(t))
    ELSE IsSubseq(s, Tail(t))

\* What runner i contributes: the records its adapter returned, each tagged
\* with its engine and normalized, when it read all of them, else nothing.
Contribution(i) ==
    IF fate[i] = "ok"
    THEN [k \in 1..Len(raw[i]) |->
            [engine |-> tasks[i],
             host |-> IF "host" \in DOMAIN raw[i][k] THEN raw[i][k].host ELSE "",
             link |-> IF "link" \in DOMAIN raw[i][k] THEN raw[i][k].link ELSE "",
             title |-> IF "title" \in DOMAIN raw[i][k] THEN raw[i][k].title ELSE "",
             text |-> IF "text" \in DOMAIN raw[i][k] THEN raw[i][k].text ELSE ""]]
    ELSE <<>>

\* C20: for every setting of the two flags, the returned list is the
\* concatenation, in task order, of what the runners contribute, with some
\* elements left out and none moved, changed or added; a runner that failed
\* after reading some of its records contributes none of them.
C20_SubsequenceAllOrNothing ==
    Returned =>
        /\ IsSubseq(results, Concat([i \in Runners |-> Contribution(i)]))
        /\ \A i \in Runners : (fate[i] /= "ok") => ret[i] = <<>>

\* The first source failed after one of its records had been read, the
\* second returned records: the returned list is the second's list.
C20_Witness ==
    /\ pc = "returned"
    /\ Len(tasks) = 2
    /\ fate = <<"read_raised", "ok">>
    /\ raw[1] /= <<>>
    /\ ret[2] /= <<>>
    /\ results = ret[2]

====
